---- MODULE Spec2Model ----
(***************************************************************************)
(* Transaction store and chain traversal of crypto_txn_tracker             *)
(* (src/src/utils/database.py, src/src/models/transaction.py).             *)
(*                                                                         *)
(* The store is an SQLite file with two tables.  Every Database method     *)
(* opens its own connection.  The model keeps the committed tables, the    *)
(* call stack of the single-threaded caller (one frame per Database        *)
(* method in progress, with its connection and its uncommitted write) and  *)
(* the value handed back by the method that returned last.                 *)
(*                                                                         *)
(* Of a Transaction the fields id, timestamp, transaction_type, raw_data   *)
(* and related_transactions are carried; source is stored like             *)
(* transaction_type, and amount, currency, fee, fee_currency, status and   *)
(* notes are bound and read back like id.                                  *)
(***************************************************************************)
EXTENDS Integers, Sequences, FiniteSets, TLC

(***************************************************************************)
(* Bounds                                                                  *)
(***************************************************************************)
\* wall-clock readings of a timestamp are 1..MaxTs
MaxTs == 2
\* the link table holds at most MaxLinks rows
MaxLinks == 2

\* transaction ids
Ids == {"A", "B", "C"}
\* ids used by the store-level specification
StoreIds == {"A", "B"}

(***************************************************************************)
(* Python values                                                           *)
(***************************************************************************)
\* datetime: wall-clock reading and tzinfo (<<>> is tzinfo=None, <<h>> is
\* a fixed offset of h hours)
Naive(w) == [wall |-> w, tzinfo |-> <<>>]
Aware(w, h) == [wall |-> w, tzinfo |-> <<h>>]

\* the values raw_data is built from: str, int, bytes, list, tuple
PyStr(s) == [t |-> "str", v |-> <<s>>]
PyInt(s) == [t |-> "int", v |-> <<s>>]
PyBytes(s) == [t |-> "bytes", v |-> <<s>>]
PyList(q) == [t |-> "list", v |-> q]
PyTuple(q) == [t |-> "tuple", v |-> q]
\* a dict with one item
PyDict(k, x) == [key |-> k, value |-> x]

\* Python's None where a Transaction is expected
NoneTx == [id |-> "None", timestamp |-> Naive(0), transaction_type |-> "None",
           raw_data |-> PyDict(PyStr("None"), PyStr("None")),
           related_transactions |-> <<>>]

Transaction(i, ts, ty, raw, rel) ==
  [id |-> i, timestamp |-> ts, transaction_type |-> ty,
   raw_data |-> raw, related_transactions |-> rel]

(***************************************************************************)
(* Conversions between a Transaction and its stored row                    *)
(***************************************************************************)
\* TransactionType member -> value
EnumValue(m) ==
  CASE m = "DEPOSIT" -> "deposit"
    [] m = "SWAP" -> "swap"
    [] OTHER -> "unknown"

\* TransactionType(value)
TransactionType(s) ==
  CASE s = "deposit" -> "DEPOSIT"
    [] s = "swap" -> "SWAP"
    [] OTHER -> "UNKNOWN"

\* datetime.isoformat(): the wall-clock text, then the UTC offset if aware
OffsetText(h) == IF h = 0 THEN "+00:00" ELSE "+01:00"

isoformat(d) ==
  [wall |-> d.wall,
   suffix |-> IF d.tzinfo = <<>> THEN "" ELSE OffsetText(d.tzinfo[1])]

\* faulty variant: the UTC offset is not parsed
fromisoformatNoOffset(s) == [wall |-> s.wall, tzinfo |-> <<>>]

\* datetime.fromisoformat()
fromisoformat(s) ==
  [wall |-> s.wall,
   tzinfo |-> CASE s.suffix = "" -> <<>>
                [] s.suffix = "+00:00" -> <<0>>
                [] OTHER -> <<1>>]

\* json.dumps raises TypeError on bytes
JsonSerializable(raw) == raw.value.t # "bytes"

\* json.dumps of a one-item dict: the key becomes a string, a tuple an array
json_dumps(raw) ==
  [key |-> raw.key.v[1],
   value |-> IF raw.value.t \in {"list", "tuple"}
             THEN [t |-> "array", v |-> raw.value.v]
             ELSE [t |-> "string", v |-> raw.value.v]]

\* json.loads of that text
json_loads(doc) ==
  PyDict(PyStr(doc.key),
         IF doc.value.t = "array" THEN PyList(doc.value.v)
                                  ELSE PyStr(doc.value.v[1]))

\* json.dumps / json.loads of the list of related ids
json_dumps_list(rel) == [t |-> "array", v |-> rel]
json_loads_list(doc) == doc.v

\* the tuple bound to INSERT OR REPLACE INTO transactions
ToRow(tx) ==
  [id |-> tx.id,
   timestamp |-> isoformat(tx.timestamp),
   transaction_type |-> EnumValue(tx.transaction_type),
   raw_data |-> json_dumps(tx.raw_data),
   related_transactions |-> json_dumps_list(tx.related_transactions)]

\* Transaction.from_dict on a fetched row
from_dict(row) ==
  [id |-> row.id,
   timestamp |-> fromisoformat(row.timestamp),
   transaction_type |-> TransactionType(row.transaction_type),
   raw_data |-> json_loads(row.raw_data),
   related_transactions |-> json_loads_list(row.related_transactions)]

(***************************************************************************)
(* State                                                                   *)
(***************************************************************************)
VARIABLES
  transactions,   \* committed rows of table transactions
  links,          \* committed rows of table transaction_links
  stack,          \* call stack: frames of the Database methods in progress
  ret,            \* what the method that finished last handed back
  op,             \* the call made by the user of the store (name, arguments)
  chain,          \* the list chain of get_transaction_chain
  visited,        \* the set visited of get_transaction_chain
  saved,          \* history: per id the Transaction of the last save that returned True
  linked,         \* history: per pair the row of the last link that returned True
  entered,        \* history: ids _get_related_transactions was entered with, in order
  added,          \* history: ids added to visited, in order
  other           \* a second user of the same database file: its stack, ret, op,
                  \* chain, visited, entered and added while it is not running

vars == <<transactions, links, stack, ret, op, chain, visited, saved, linked,
          entered, added, other>>

db == <<transactions, links>>
hist == <<saved, linked>>
trav == <<chain, visited, entered, added>>


(***************************************************************************)
(* Frames, returned values, tables                                         *)
(***************************************************************************)
\* a frame of a Database method: its arguments, its locals, whether its
\* connection is open and whether that connection holds an uncommitted write
Frame(o, p, i) ==
  [op |-> o, pc |-> p, id |-> i, child |-> "", rtype |-> "", tx |-> NoneTx,
   todo |-> <<>>, conn |-> FALSE, dirty |-> FALSE]

Top == stack[Len(stack)]
Pop == SubSeq(stack, 1, Len(stack) - 1)
SetTop(f) == [stack EXCEPT ![Len(stack)] = f]
Running(o, p) == stack # <<>> /\ Top.op = o /\ Top.pc = p

NoRet == [kind |-> "none", ok |-> FALSE, tx |-> NoneTx, list |-> <<>>, exc |-> "", conn |-> 0]
RetBool(b) == [NoRet EXCEPT !.kind = "bool", !.ok = b]
RetTx(t) == [NoRet EXCEPT !.kind = "tx", !.tx = t]
RetList(l) == [NoRet EXCEPT !.kind = "list", !.list = l]
\* an exception leaving a method; c counts the connections the method left open
Raise(e, c) == [NoRet EXCEPT !.kind = "raise", !.exc = e, !.conn = c]

\* a call by the user of the store, with the rows the tables held for its
\* arguments when it was made
Call(n, i, c, t, x) ==
  [name |-> n, id |-> i, child |-> c, rtype |-> t, tx |-> x,
   before |-> {r \in transactions : r.id = i},
   beforelink |-> {r \in links : r.parent_id = i /\ r.child_id = c}]

Range(q) == {q[i] : i \in 1..Len(q)}

\* all orderings of a finite set
Orderings(S) ==
  {q \in [1..Cardinality(S) -> S] : \A i, j \in 1..Cardinality(S) : i # j => q[i] # q[j]}

\* faulty variant: INSERT OR IGNORE, the first row of an id stays
InsertOrIgnoreTransaction(table, row) ==
  IF \E r \in table : r.id = row.id THEN table ELSE table \cup {row}

\* faulty variant: the rows of the other ids are dropped
ReplaceAllTransactions(table, row) == {row}

\* INSERT OR REPLACE INTO transactions: id is the primary key
InsertOrReplaceTransaction(table, row) ==
  {r \in table : r.id # row.id} \cup {row}

\* PRIMARY KEY (parent_id, child_id) of transaction_links
SameLinkKey(r, row) == r.parent_id = row.parent_id /\ r.child_id = row.child_id

\* faulty variant: the table has no primary key, every INSERT adds a row
InsertLink(table, row) == table \cup {row}

\* faulty variant: the row is written only if both ids have a record
InsertLinkForeignKey(table, row) ==
  IF {row.parent_id, row.child_id} \subseteq {r.id : r \in transactions}
  THEN {r \in table : ~SameLinkKey(r, row)} \cup {row}
  ELSE table

\* INSERT OR REPLACE INTO transaction_links
InsertOrReplaceLink(table, row) ==
  {r \in table : ~SameLinkKey(r, row)} \cup {row}

LinkRow(p, c, t) == [parent_id |-> p, child_id |-> c, relationship_type |-> t]

\* SQLite allows one writer: a statement that writes fails with "database is
\* locked" while another connection holds an uncommitted write, be it the
\* connection of an enclosing frame or a connection of the second user
Locked ==
  \/ \E i \in 1..(Len(stack) - 1) : stack[i].dirty
  \/ \E i \in 1..Len(other.stack) : other.stack[i].dirty

\* comparison of the TEXT column timestamp used by ORDER BY
SuffixRank(x) == CASE x = "" -> 0 [] x = "+00:00" -> 1 [] OTHER -> 2
TextLeq(a, b) ==
  \/ a.wall < b.wall
  \/ a.wall = b.wall /\ SuffixRank(a.suffix) <= SuffixRank(b.suffix)

\* comparison of datetime objects: naive with naive by wall clock, aware with
\* aware by instant; naive with aware raises TypeError
Instant(d) == IF d.tzinfo = <<>> THEN d.wall ELSE d.wall - d.tzinfo[1]
Comparable(q) ==
  \A i, j \in 1..Len(q) : (q[i].timestamp.tzinfo = <<>>) = (q[j].timestamp.tzinfo = <<>>)

\* list.sort(key=lambda t: t.timestamp): stable, ascending
RECURSIVE InsertSorted(_, _)
InsertSorted(q, x) ==
  IF q = <<>> THEN <<x>>
  ELSE IF Instant(q[Len(q)].timestamp) <= Instant(x.timestamp) THEN Append(q, x)
  ELSE Append(InsertSorted(SubSeq(q, 1, Len(q) - 1), x), q[Len(q)])

\* faulty variant: the list is left in the order of discovery
SortByTimestampUnsorted(q) == q

RECURSIVE SortByTimestamp(_)
SortByTimestamp(q) ==
  IF q = <<>> THEN <<>>
  ELSE InsertSorted(SortByTimestamp(SubSeq(q, 1, Len(q) - 1)), q[Len(q)])

(***************************************************************************)
(* Database.__init__ / _create_tables: both tables exist and are empty     *)
(***************************************************************************)
Init ==
  /\ transactions = {}
  /\ links = {}
  /\ stack = <<>>
  /\ ret = NoRet
  /\ op = [name |-> "idle", id |-> "", child |-> "", rtype |-> "", tx |-> NoneTx,
           before |-> {}, beforelink |-> {}]
  /\ chain = <<>>
  /\ visited = {}
  /\ saved = {}
  /\ linked = {}
  /\ entered = <<>>
  /\ added = <<>>
  /\ other = [stack |-> stack, ret |-> ret, op |-> op, chain |-> chain,
              visited |-> visited, entered |-> entered, added |-> added]

\* no call has been made, or the last one has been dealt with
Idle == Call("idle", "", "", "", NoneTx)

\* a call by the user of the store: only when no method is in progress
Begin(c, frames) ==
  /\ stack = <<>>
  /\ op.name = "idle"
  /\ op' = c
  /\ stack' = frames
  /\ ret' = NoRet
  /\ chain' = <<>>
  /\ visited' = {}
  /\ entered' = <<>>
  /\ added' = <<>>
  /\ UNCHANGED <<db, hist, other>>

\* sqlite3.connect(self.db_path), the first statement of a method, outside
\* any try block; then the frame continues at pc next
Connect(o, next) ==
  /\ Running(o, "connect")
  /\ \E fail \in BOOLEAN :
       IF fail
       THEN /\ stack' = Pop
            /\ ret' = Raise("OperationalError", 0)
       ELSE /\ stack' = SetTop([Top EXCEPT !.conn = TRUE, !.pc = next])
            /\ ret' = ret
  /\ UNCHANGED <<db, op, hist, trav, other>>

(***************************************************************************)
(* save_transaction                                                        *)
(***************************************************************************)
save_transaction(tx) ==
  Begin(Call("save", tx.id, "", "", tx), <<[Frame("save", "connect", tx.id) EXCEPT !.tx = tx]>>)

SaveConnect == Connect("save", "write")

\* try: execute INSERT OR REPLACE, commit, return True
\* except: return False; finally: close
SaveWrite ==
  /\ Running("save", "write")
  /\ \E fail \in BOOLEAN :
       LET tx == Top.tx
           ok == ~fail /\ JsonSerializable(tx.raw_data) /\ ~Locked
       IN  IF ok
           THEN /\ transactions' = InsertOrReplaceTransaction(transactions, ToRow(tx))
                /\ saved' = {s \in saved : s.id # tx.id} \cup {tx}
                /\ ret' = RetBool(TRUE)
           ELSE /\ UNCHANGED <<transactions, saved>>
                /\ ret' = RetBool(FALSE)
  /\ stack' = Pop
  /\ UNCHANGED <<links, op, linked, trav, other>>

(***************************************************************************)
(* get_transaction                                                         *)
(***************************************************************************)
get_transaction(i) ==
  Begin(Call("get", i, "", "", NoneTx), <<Frame("get", "connect", i)>>)

GetConnect == Connect("get", "select")

\* execute SELECT, fetchone, close; None if no row, else from_dict(row).
\* No try block: a failing statement raises and the close is not reached.
GetSelect ==
  /\ Running("get", "select")
  /\ \E fail \in BOOLEAN :
       LET rows == {r \in transactions : r.id = Top.id}
       IN  IF fail
           THEN ret' = Raise("OperationalError", 1)
           ELSE IF rows = {}
           THEN ret' = RetTx(NoneTx)
           ELSE \E r \in rows : ret' = RetTx(from_dict(r))
  /\ stack' = Pop
  /\ UNCHANGED <<db, op, hist, trav, other>>

(***************************************************************************)
(* get_all_transactions                                                    *)
(***************************************************************************)
get_all_transactions ==
  Begin(Call("get_all", "", "", "", NoneTx), <<Frame("get_all", "connect", "")>>)

GetAllConnect == Connect("get_all", "select")

\* SELECT * ... ORDER BY timestamp DESC: the rows in descending order of the
\* stored text, rows with equal text in any order
GetAllSelect ==
  /\ Running("get_all", "select")
  /\ \E fail \in BOOLEAN :
       IF fail
       THEN ret' = Raise("OperationalError", 1)
       ELSE \E q \in Orderings(transactions) :
              /\ \A i, j \in 1..Len(q) : i < j => TextLeq(q[j].timestamp, q[i].timestamp)
              /\ ret' = RetList([k \in 1..Len(q) |-> from_dict(q[k])])
  /\ stack' = Pop
  /\ UNCHANGED <<db, op, hist, trav, other>>


(***************************************************************************)
(* link_transactions                                                       *)
(***************************************************************************)
link_transactions(p, c, t) ==
  /\ (\E r \in links : SameLinkKey(r, LinkRow(p, c, t))) \/ Cardinality(links) < MaxLinks
  /\ Begin(Call("link", p, c, t, NoneTx),
           <<[Frame("link", "connect", p) EXCEPT !.child = c, !.rtype = t]>>)

LinkConnect == Connect("link", "insert")

\* faulty variant: child_id is appended to every parent that has a record
NeedsAppendAlways(parent, child_id) == parent # NoneTx

\* `if parent and child_id not in parent.related_transactions`
NeedsAppend(parent, child_id) ==
  parent # NoneTx /\ child_id \notin Range(parent.related_transactions)

\* try: execute INSERT OR REPLACE INTO transaction_links (not yet committed),
\* then call get_transaction(parent_id); except: return False; finally: close
LinkInsert ==
  /\ Running("link", "insert")
  /\ \E fail \in BOOLEAN :
       IF fail \/ Locked
       THEN /\ stack' = Pop
            /\ ret' = RetBool(FALSE)
       ELSE /\ stack' = Append(SetTop([Top EXCEPT !.dirty = TRUE, !.pc = "after_get"]),
                               Frame("get", "connect", Top.id))
            /\ ret' = NoRet
  /\ UNCHANGED <<db, op, hist, trav, other>>

\* get_transaction came back: an exception is caught (return False, close,
\* the insert is dropped, and the connection get_transaction left open goes
\* with the exception object when the except block ends); a parent lacking child_id gets it appended and
\* save_transaction(parent) is called; otherwise go on to commit
LinkAfterGet ==
  /\ Running("link", "after_get")
  /\ IF ret.kind = "raise"
     THEN /\ stack' = Pop
          /\ ret' = RetBool(FALSE)
     ELSE IF NeedsAppend(ret.tx, Top.child)
     THEN LET parent == [ret.tx EXCEPT !.related_transactions = Append(@, Top.child)]
          IN  /\ stack' = Append(SetTop([Top EXCEPT !.tx = parent, !.pc = "after_save"]),
                                 [Frame("save", "connect", parent.id) EXCEPT !.tx = parent])
              /\ ret' = NoRet
     ELSE /\ stack' = SetTop([Top EXCEPT !.tx = ret.tx, !.pc = "commit"])
          /\ ret' = NoRet
  /\ UNCHANGED <<db, op, hist, trav, other>>

\* save_transaction came back: its result is not looked at; an exception
\* (from its connect) is caught
LinkAfterSave ==
  /\ Running("link", "after_save")
  /\ IF ret.kind = "raise"
     THEN /\ stack' = Pop
          /\ ret' = RetBool(FALSE)
     ELSE /\ stack' = SetTop([Top EXCEPT !.pc = "commit"])
          /\ ret' = NoRet
  /\ UNCHANGED <<db, op, hist, trav, other>>

\* conn.commit(); return True -- except: return False; finally: close
LinkCommit ==
  /\ Running("link", "commit")
  /\ \E fail \in BOOLEAN :
       LET row == LinkRow(Top.id, Top.child, Top.rtype)
       IN  IF fail
           THEN /\ UNCHANGED <<links, linked>>
                /\ ret' = RetBool(FALSE)
           ELSE /\ links' = InsertOrReplaceLink(links, row)
                /\ linked' = {r \in linked : ~SameLinkKey(r, row)} \cup {row}
                /\ ret' = RetBool(TRUE)
  /\ stack' = Pop
  /\ UNCHANGED <<transactions, op, saved, trav, other>>

(***************************************************************************)
(* get_transaction_chain / _get_related_transactions                       *)
(***************************************************************************)
\* transaction = self.get_transaction(transaction_id)
get_transaction_chain(i) ==
  Begin(Call("chain", i, "", "", NoneTx),
        <<Frame("chain", "after_get", i), Frame("get", "connect", i)>>)

\* faulty variant: the result of get_transaction is used unchecked
NotFoundNever(transaction) == FALSE

\* `if not transaction`
NotFound(transaction) == transaction = NoneTx

\* `if not transaction: return []`, else chain = [transaction],
\* visited = {transaction_id} and the first call of _get_related_transactions
ChainAfterGet ==
  /\ Running("chain", "after_get")
  /\ IF ret.kind = "raise"
     THEN /\ stack' = Pop
          /\ UNCHANGED <<ret, trav>>
     ELSE IF NotFound(ret.tx)
     THEN /\ stack' = Pop
          /\ ret' = RetList(<<>>)
          /\ UNCHANGED trav
     ELSE /\ chain' = <<ret.tx>>
          /\ visited' = {Top.id}
          /\ added' = <<Top.id>>
          /\ entered' = <<Top.id>>
          /\ stack' = Append(SetTop([Top EXCEPT !.pc = "after_related"]),
                             Frame("related", "connect", Top.id))
          /\ ret' = NoRet
  /\ UNCHANGED <<db, op, hist, other>>

\* chain.sort(key=lambda t: t.timestamp); return chain
ChainSort ==
  /\ Running("chain", "after_related")
  /\ IF ret.kind = "raise"
     THEN UNCHANGED <<ret, chain>>
     ELSE IF NoneTx \in Range(chain)
     THEN /\ ret' = Raise("AttributeError", 0)
          /\ UNCHANGED chain
     ELSE IF ~Comparable(chain)
     THEN /\ ret' = Raise("TypeError", 0)
          /\ UNCHANGED chain
     ELSE /\ chain' = SortByTimestamp(chain)
          /\ ret' = RetList(chain')
  /\ stack' = Pop
  /\ UNCHANGED <<db, op, hist, visited, entered, added, other>>

RelConnect == Connect("related", "select")

\* faulty variant: only the child rows are followed
RelatedIdsChildrenOnly(child_ids, parent_ids) == child_ids

\* `for related_id in child_ids + parent_ids`
RelatedIds(child_ids, parent_ids) == child_ids \o parent_ids

\* the two SELECTs on transaction_links, then close.  No ORDER BY: the rows
\* of each SELECT come in any order.  No try block: a failing statement
\* raises and the close is not reached.
RelSelect ==
  /\ Running("related", "select")
  /\ \E fail \in BOOLEAN :
       IF fail
       THEN /\ stack' = Pop
            /\ ret' = Raise("OperationalError", 1)
       ELSE \E cs \in Orderings({r \in links : r.parent_id = Top.id}),
               ps \in Orderings({r \in links : r.child_id = Top.id}) :
              LET child_ids == [k \in 1..Len(cs) |-> cs[k].child_id]
                  parent_ids == [k \in 1..Len(ps) |-> ps[k].parent_id]
              IN  /\ stack' = SetTop([Top EXCEPT !.conn = FALSE, !.pc = "loop",
                                                 !.todo = RelatedIds(child_ids, parent_ids)])
                  /\ ret' = NoRet
  /\ UNCHANGED <<db, op, hist, trav, other>>

\* faulty variant: the visited set is not consulted
NotVisitedAlways(related_id) == TRUE

\* `if related_id not in visited`
NotVisited(related_id) == related_id \notin visited

\* one turn of the for loop: the next related_id; if new, visited.add and
\* get_transaction(related_id).  The method returns when the list is used up.
RelLoop ==
  /\ Running("related", "loop")
  /\ IF Top.todo = <<>>
     THEN /\ stack' = Pop
          /\ UNCHANGED <<visited, added>>
     ELSE LET related_id == Head(Top.todo)
          IN  IF NotVisited(related_id)
              THEN /\ visited' = visited \cup {related_id}
                   /\ added' = Append(added, related_id)
                   /\ stack' = Append(SetTop([Top EXCEPT !.todo = Tail(@), !.child = related_id,
                                                         !.pc = "after_get"]),
                                      Frame("get", "connect", related_id))
              ELSE /\ stack' = SetTop([Top EXCEPT !.todo = Tail(@)])
                   /\ UNCHANGED <<visited, added>>
  /\ ret' = NoRet
  /\ UNCHANGED <<db, op, hist, chain, entered, other>>

\* faulty variant: the result of get_transaction is appended unchecked
RelatedFoundAlways(related_tx) == TRUE

\* `if related_tx`
RelatedFound(related_tx) == related_tx # NoneTx

\* get_transaction(related_id) came back: a record is appended to chain and
\* the method recurses into it; None is skipped
RelAfterGet ==
  /\ Running("related", "after_get")
  /\ IF ret.kind = "raise"
     THEN /\ stack' = Pop
          /\ UNCHANGED <<ret, chain, entered>>
     ELSE IF RelatedFound(ret.tx)
     THEN /\ chain' = Append(chain, ret.tx)
          /\ entered' = Append(entered, Top.child)
          /\ stack' = Append(SetTop([Top EXCEPT !.pc = "after_related"]),
                             Frame("related", "connect", Top.child))
          /\ ret' = NoRet
     ELSE /\ stack' = SetTop([Top EXCEPT !.pc = "loop"])
          /\ ret' = NoRet
          /\ UNCHANGED <<chain, entered>>
  /\ UNCHANGED <<db, op, hist, visited, added, other>>

\* the recursive call came back: the loop goes on, an exception passes through
RelAfterRelated ==
  /\ Running("related", "after_related")
  /\ IF ret.kind = "raise"
     THEN /\ stack' = Pop
          /\ ret' = ret
     ELSE /\ stack' = SetTop([Top EXCEPT !.pc = "loop"])
          /\ ret' = NoRet
  /\ UNCHANGED <<db, op, hist, trav, other>>


(***************************************************************************)
(* CLI.run: the command prints what the store handed back (or the error it *)
(* caught) and the process exits; the tables stay                          *)
(***************************************************************************)
Exit ==
  /\ stack = <<>>
  /\ op.name # "idle"
  /\ op' = Idle
  /\ ret' = NoRet
  /\ chain' = <<>>
  /\ visited' = {}
  /\ entered' = <<>>
  /\ added' = <<>>
  /\ UNCHANGED <<db, hist, stack, other>>

(***************************************************************************)
(* Inputs                                                                  *)
(***************************************************************************)
RawNative == PyDict(PyStr("k"), PyStr("x"))
RawList == PyDict(PyStr("k"), PyList(<<"x">>))
RawTuple == PyDict(PyStr("k"), PyTuple(<<"x">>))
RawIntKey == PyDict(PyInt("1"), PyStr("x"))
RawBytes == PyDict(PyStr("k"), PyBytes("x"))

\* records offered to save_transaction by the store-level specification
StoreTxInputs ==
  {Transaction(i, Naive(1), "DEPOSIT", raw, <<>>) :
     i \in StoreIds, raw \in {RawNative, RawList, RawTuple, RawIntKey, RawBytes}}
  \cup {Transaction(i, Aware(1, 0), "SWAP", RawNative, <<"B", "A">>) : i \in StoreIds}
  \cup {Transaction(i, Naive(1), "DEPOSIT", RawNative, <<"B">>) : i \in StoreIds}

RelTypes == {"continuation", "swap"}

\* records offered to save_transaction by the traversal specification
ChainTxInputs ==
  {Transaction(i, Naive(w), "DEPOSIT", RawNative, <<>>) : i \in Ids, w \in 1..MaxTs}

(***************************************************************************)
(* Specifications                                                          *)
(***************************************************************************)
\* the steps of the methods in progress
StoreStep ==
  \/ SaveConnect \/ SaveWrite
  \/ GetConnect \/ GetSelect
  \/ LinkConnect \/ LinkInsert \/ LinkAfterGet \/ LinkAfterSave \/ LinkCommit

ListStep == GetAllConnect \/ GetAllSelect

ChainStep ==
  \/ ChainAfterGet \/ ChainSort
  \/ RelConnect \/ RelSelect \/ RelLoop \/ RelAfterGet \/ RelAfterRelated

Step == StoreStep \/ ListStep \/ ChainStep

\* the store with two ids, records differing in every field, two link types
Next ==
  \/ \E tx \in StoreTxInputs : save_transaction(tx)
  \/ \E i \in StoreIds : get_transaction(i)
  \/ get_all_transactions
  \/ \E p, c \in StoreIds, t \in RelTypes : link_transactions(p, c, t)
  \/ \E i \in StoreIds : get_transaction_chain(i)
  \/ Step
  \/ Exit

Spec == Init /\ [][Next]_vars

\* the traversal with three ids, records differing in timestamp
NextChain ==
  \/ \E tx \in ChainTxInputs : save_transaction(tx)
  \/ \E i \in Ids : get_transaction(i)
  \/ get_all_transactions
  \/ \E p, c \in Ids : link_transactions(p, c, "continuation")
  \/ \E i \in Ids : get_transaction_chain(i)
  \/ Step
  \/ Exit

SpecChain == Init /\ [][NextChain]_vars


\* the traversal over every link table, all records with the same timestamp
TraversalTxInputs ==
  {Transaction(i, Naive(1), "DEPOSIT", RawNative, <<>>) : i \in Ids}

NextTraversal ==
  \/ \E tx \in TraversalTxInputs : save_transaction(tx)
  \/ \E p, c \in Ids : link_transactions(p, c, "continuation")
  \/ \E i \in Ids : get_transaction_chain(i)
  \/ StoreStep
  \/ ChainStep
  \/ Exit

\* a method in progress keeps executing (single-threaded, synchronous)
SpecTraversalFair == Init /\ [][NextTraversal]_vars /\ WF_vars(Step)

\* two users of the same database file (two runs of the command line, each
\* with its own Database object): the operating system takes the processor
\* from one and gives it to the other between any two steps
Switch ==
  /\ stack' = other.stack
  /\ ret' = other.ret
  /\ op' = other.op
  /\ chain' = other.chain
  /\ visited' = other.visited
  /\ entered' = other.entered
  /\ added' = other.added
  /\ other' = [stack |-> stack, ret |-> ret, op |-> op, chain |-> chain,
               visited |-> visited, entered |-> entered, added |-> added]
  /\ UNCHANGED <<db, hist>>

\* records of one parent offered to save_transaction by the two users
ConcurrentTxInputs ==
  {Transaction("A", Naive(1), "DEPOSIT", RawNative, rel) : rel \in {<<>>, <<"C">>}}

\* two users saving and linking the same parent
NextConcurrent ==
  \/ \E tx \in ConcurrentTxInputs : save_transaction(tx)
  \/ \E c \in {"B", "C"} : link_transactions("A", c, "continuation")
  \/ StoreStep
  \/ Exit
  \/ Switch

SpecConcurrent == Init /\ [][NextConcurrent]_vars

(***************************************************************************)
(* Properties                                                              *)
(***************************************************************************)
StoredIds == {r.id : r \in transactions}

\* the call named n made by the user has finished
Done(n) == stack = <<>> /\ op.name = n

ListIds(q) == [k \in 1..Len(q) |-> q[k].id]
NoDup(q) == \A i, j \in 1..Len(q) : i # j => q[i] # q[j]

\* ids at the other end of a link row touching an id of S
Neighbours(S) ==
  {r.child_id : r \in {x \in links : x.parent_id \in S}}
  \cup {r.parent_id : r \in {x \in links : x.child_id \in S}}

\* ids reachable from S over link rows in either direction by paths that
\* are continued only from ids in T
RECURSIVE Reach(_, _)
Reach(S, T) ==
  LET S2 == S \cup Neighbours(S \cap T)
  IN  IF S2 = S THEN S ELSE Reach(S2, T)

\* every id that occurs in the tables
AllIds == StoredIds \cup {r.parent_id : r \in links} \cup {r.child_id : r \in links}

\* the stored records with an id in S, as get_transaction returns them
Records(S) == {from_dict(r) : r \in {x \in transactions : x.id \in S}}

\* C2 (as stated): the result of get_transaction_chain(s) for a stored s
\* holds exactly the stored transactions of the undirected connected
\* component of s in the link table, each once.
C2_ChainIsComponent ==
  (Done("chain") /\ ret.kind = "list" /\ op.id \in StoredIds) =>
     LET comp == Reach({op.id}, AllIds) \cap StoredIds
     IN  /\ Range(ret.list) = Records(comp)
         /\ Len(ret.list) = Cardinality(comp)

\* C2 (amended): the result of get_transaction_chain(s) for a stored s holds
\* exactly the stored transactions reachable from s over link rows in either
\* direction by paths whose intermediate ids are all stored, each once, s
\* included.
C2_ChainIsStoredComponent ==
  (Done("chain") /\ ret.kind = "list" /\ op.id \in StoredIds) =>
     LET comp == Reach({op.id}, StoredIds) \cap StoredIds
     IN  /\ Range(ret.list) = Records(comp)
         /\ Len(ret.list) = Cardinality(comp)
         /\ op.id \in Range(ListIds(ret.list))

\* a chain of two records came back although the traversal met an id
\* without a record
C2_Witness ==
  /\ Done("chain") /\ ret.kind = "list" /\ Len(ret.list) = 2
  /\ visited \ StoredIds # {}
  /\ Cardinality(links) = 2

\* C3: get_transaction_chain terminates on every link table, cycles and
\* self-links included: every call of it comes to an end, no id is added to
\* visited twice and _get_related_transactions is entered at most once per id.
C3_ChainTerminates ==
  /\ [](NoDup(added) /\ NoDup(entered))
  /\ (stack # <<>> /\ op.name = "chain") ~> (stack = <<>>)

\* a traversal over a cycle A -> B -> A with a self-link came to an end
\* with a result
C3_Witness ==
  /\ Done("chain") /\ ret.kind = "list" /\ Len(ret.list) = 2
  /\ \E r \in links : r.parent_id = r.child_id \/
       (r.parent_id # r.child_id /\ LinkRow(r.child_id, r.parent_id, r.relationship_type) \in links)

\* C4: the list get_transaction_chain returns is in ascending order of
\* timestamp, whatever order the traversal found the records in.
C4_ChainSorted ==
  (Done("chain") /\ ret.kind = "list") =>
     \A i, j \in 1..Len(ret.list) :
        i < j => Instant(ret.list[i].timestamp) <= Instant(ret.list[j].timestamp)

\* three records came back in an order that is not the order of discovery
C4_Witness ==
  /\ Done("chain") /\ ret.kind = "list" /\ Len(ret.list) = 3
  /\ ListIds(ret.list) # entered
  /\ \E i \in 1..2 : Instant(ret.list[i].timestamp) < Instant(ret.list[i + 1].timestamp)

\* C5: a link to an id without a record does not make get_transaction_chain
\* raise (the only exceptions leaving it are a failing storage statement and
\* the comparison of incomparable timestamps), that id is not in the result,
\* and every element of the result is a record of table transactions.
C5_DanglingTolerated ==
  Done("chain") =>
     /\ ret.kind = "raise" => ret.exc \in {"OperationalError", "TypeError"}
     /\ ret.kind = "list" =>
          /\ Range(ret.list) \subseteq Records(StoredIds)
          /\ Range(ListIds(ret.list)) \cap (visited \ StoredIds) = {}

\* a list came back from a traversal that met an id without a record
C5_Witness ==
  /\ Done("chain") /\ ret.kind = "list" /\ Len(ret.list) >= 1
  /\ visited \ StoredIds # {}


\* raw_data that is a JSON document in Python form: string keys, and values
\* that are strings or lists
JsonNative(raw) == raw.key.t = "str" /\ raw.value.t \in {"str", "list"}

\* C1: after link_transactions(A, B, t) has returned True for a stored A,
\* the stored record of A has B in related_transactions.
C1_LinkUpdatesParent ==
  (Done("link") /\ ret.kind = "bool" /\ ret.ok /\ op.before # {}) =>
     \A r \in transactions :
        r.id = op.id => op.child \in Range(from_dict(r).related_transactions)

\* C6: table transactions holds at most one row per id, that row is the row
\* written by the last save_transaction of the id that returned True (nothing
\* of an earlier row is kept), get_transaction returns that row, and saving
\* an id that is already present raises no constraint error.
C6_UpsertById ==
  /\ \A r1, r2 \in transactions : r1.id = r2.id => r1 = r2
  /\ transactions = {ToRow(s) : s \in saved}
  /\ (Done("get") /\ ret.kind = "tx") =>
        IF op.id \in StoredIds
        THEN \E s \in saved : s.id = op.id /\ ret.tx = from_dict(ToRow(s))
        ELSE ret.tx = NoneTx
  /\ (Done("save") /\ op.before # {}) =>
        \/ ret.kind = "bool" /\ (ret.ok => transactions = (transactions \ op.before) \cup {ToRow(op.tx)})
        \/ ret.kind = "raise" /\ ret.exc = "OperationalError"

\* a save of an id that had a row with other values returned True
C6_Witness ==
  /\ Done("save") /\ ret.kind = "bool" /\ ret.ok
  /\ op.before # {} /\ ToRow(op.tx) \notin op.before

\* C7 (as stated): get_transaction(id) equals, field for field, the
\* Transaction of the last save_transaction of that id that returned True.
C7_RoundTrip ==
  (Done("get") /\ ret.kind = "tx" /\ op.id \in StoredIds) =>
     \E s \in saved : s.id = op.id /\ ret.tx = s

\* C7 (amended): the same, for a Transaction whose raw_data is a JSON
\* document in Python form (string keys, lists and no tuples).
C7_RoundTripJson ==
  (Done("get") /\ ret.kind = "tx" /\ op.id \in StoredIds) =>
     \E s \in saved : s.id = op.id /\ (JsonNative(s.raw_data) => ret.tx = s)

\* a record with an aware timestamp, a list in raw_data or two related ids
\* came back as it was saved
C7_Witness ==
  /\ Done("get") /\ ret.kind = "tx" /\ ret.tx \in saved
  /\ \/ ret.tx.timestamp.tzinfo # <<>> /\ Len(ret.tx.related_transactions) = 2
     \/ ret.tx.raw_data = RawList

\* C8: table transaction_links holds at most one row per ordered pair
\* (parent_id, child_id), and the row of a pair is the row of the last
\* link_transactions of the pair that returned True.
C8_LinkUnique ==
  /\ \A r1, r2 \in links : SameLinkKey(r1, r2) => r1 = r2
  /\ links = linked

\* a pair was linked again with another relationship type while the
\* reverse pair is in the table
C8_Witness ==
  /\ Done("link") /\ ret.kind = "bool" /\ ret.ok
  /\ \E r \in op.beforelink : r.relationship_type # op.rtype
  /\ op.id # op.child
  /\ \E r \in links : r.parent_id = op.child /\ r.child_id = op.id

\* C9: no exception leaves a method of the store.
C9_NoExceptionEscapes == stack = <<>> => ret.kind # "raise"

\* C10: when no method of the store is in progress no connection is open,
\* and while a method of the store runs no connection opened by another
\* method is open or holds an uncommitted write.
C10_ConnectionScoping ==
  /\ stack = <<>> => ret.conn = 0
  /\ \A i, j \in 1..Len(stack) :
        (i < j /\ stack[j].op \in {"save", "get", "get_all", "link", "chain"}) =>
           ~stack[i].conn /\ ~stack[i].dirty

\* C11: link_transactions does not look at whether its two ids have a record:
\* whenever it returns True the edge is in table transaction_links, whether
\* or not either id is stored, and no step of a link_transactions call adds
\* an id to table transactions.
C11_NoEndpointCheck ==
  /\ []((Done("link") /\ ret.kind = "bool" /\ ret.ok) =>
          LinkRow(op.id, op.child, op.rtype) \in links)
  /\ [][op.name = "link" => StoredIds' = StoredIds]_vars

\* a link between two ids neither of which has a record returned True
C11_Witness ==
  /\ Done("link") /\ ret.kind = "bool" /\ ret.ok
  /\ op.id # op.child
  /\ {op.id, op.child} \cap StoredIds = {}
  /\ LinkRow(op.id, op.child, op.rtype) \in links

\* C12: the edge is durable before the parent record is rewritten: while the
\* save_transaction(parent) called by link_transactions is in progress, table
\* transaction_links already holds the edge; and once link_transactions has
\* returned True for a stored parent that lacked the child, the rewritten
\* parent record is durable as well.
C12_EdgeThenParent ==
  /\ \A i \in 1..Len(stack) :
        (stack[i].op = "link" /\ stack[i].pc = "after_save") =>
           LinkRow(stack[i].id, stack[i].child, stack[i].rtype) \in links
  /\ (Done("link") /\ ret.kind = "bool" /\ ret.ok) =>
        \A b \in op.before :
           op.child \notin Range(from_dict(b).related_transactions) =>
              ToRow([from_dict(b) EXCEPT !.related_transactions = Append(@, op.child)])
                 \in transactions

\* the ordered pairs that have a row in transaction_links
LinkKeys == {<<r.parent_id, r.child_id>> : r \in links}

\* C14: nothing is deleted: no step of save_transaction, get_transaction,
\* get_all_transactions, link_transactions or get_transaction_chain removes
\* an id from table transactions or a pair from table transaction_links; an
\* id saved with success stays stored and get_transaction finds it, and a
\* pair linked with success stays in the link table.
C14_NoDeletion ==
  /\ [][StoredIds \subseteq StoredIds' /\ LinkKeys \subseteq LinkKeys']_vars
  /\ [](/\ {s.id : s \in saved} \subseteq StoredIds
        /\ {<<r.parent_id, r.child_id>> : r \in linked} \subseteq LinkKeys
        /\ (Done("get") /\ ret.kind = "tx" /\ op.id \in {s.id : s \in saved}) =>
              ret.tx.id = op.id)

\* a record was saved over another record of its id while a second id and
\* two edges were stored, and all of them are still there
C14_Witness ==
  /\ Done("save") /\ ret.kind = "bool" /\ ret.ok
  /\ op.before # {} /\ ToRow(op.tx) \notin op.before
  /\ Cardinality(StoredIds) = 2
  /\ Cardinality(LinkKeys) = 2

\* C15: the list get_all_transactions returns holds every stored record
\* exactly once, and for positions i < j the timestamps compare
\* result[i].timestamp >= result[j].timestamp (which requires that the two
\* datetime objects can be compared).
C15_ListDescending ==
  (Done("get_all") /\ ret.kind = "list") =>
     /\ Range(ret.list) = Records(StoredIds)
     /\ Len(ret.list) = Cardinality(transactions)
     /\ Comparable(ret.list)
     /\ \A i, j \in 1..Len(ret.list) :
           i < j => Instant(ret.list[i].timestamp) >= Instant(ret.list[j].timestamp)

\* C16: for an id without a record get_transaction returns None and
\* get_transaction_chain returns the empty list, also when table
\* transaction_links has rows with that id; the missing record makes neither
\* raise (the only exception leaving them is a failing storage statement),
\* and no step of either changes a table.
C16_NotFound ==
  /\ [](/\ (Done("get") /\ op.before = {}) =>
              \/ ret.kind = "tx" /\ ret.tx = NoneTx
              \/ ret.kind = "raise" /\ ret.exc = "OperationalError"
        /\ (Done("chain") /\ op.before = {}) =>
              \/ ret.kind = "list" /\ ret.list = <<>>
              \/ ret.kind = "raise" /\ ret.exc = "OperationalError")
  /\ [][op.name \in {"get", "chain"} => db' = db]_vars

\* get_transaction_chain of an id without a record, with an edge from it and
\* an edge to it in the link table, returned the empty list
C16_Witness ==
  /\ Done("chain") /\ ret.kind = "list" /\ ret.list = <<>>
  /\ op.id \notin StoredIds
  /\ \E r \in links : r.parent_id = op.id
  /\ \E r \in links : r.child_id = op.id

\* C17: whenever no method of the store is in progress, every row (p, c) of
\* table transaction_links whose parent p has a record has c in the
\* related_transactions of that record.
C17_CacheSynchronized ==
  stack = <<>> =>
     \A l \in links : \A r \in transactions :
        r.id = l.parent_id => l.child_id \in Range(from_dict(r).related_transactions)

\* the number of times x occurs in the list q
Count(x, q) == Cardinality({k \in 1..Len(q) : q[k] = x})

\* C18: link_transactions appends child_id to the parent's list only when
\* the list lacks it, so the parent it hands to save_transaction holds
\* child_id exactly once; a link_transactions call never leaves the stored
\* parent with child_id more than once unless it was stored like that before
\* the call; and a call that repeats a row of the link table changes neither
\* table.
C18_RelinkIdempotent ==
  /\ [](/\ \A i \in 1..Len(stack) :
              (stack[i].op = "link" /\ stack[i].pc = "after_save") =>
                 Count(stack[i].child, stack[i].tx.related_transactions) = 1
        /\ Done("link") =>
              \A r \in transactions :
                 r.id = op.id =>
                    \/ Count(op.child, from_dict(r).related_transactions) <= 1
                    \/ r \in op.before)
  /\ [][(op.name = "link" /\ LinkRow(op.id, op.child, op.rtype) \in op.beforelink)
           => db' = db]_vars

\* link_transactions was repeated with the same arguments for a parent whose
\* stored list already holds the child, and returned True
C18_Witness ==
  /\ Done("link") /\ ret.kind = "bool" /\ ret.ok
  /\ LinkRow(op.id, op.child, op.rtype) \in op.beforelink
  /\ \E r \in transactions :
        r.id = op.id /\ Count(op.child, from_dict(r).related_transactions) = 1

\* C19: when link_transactions returns False, table transaction_links holds
\* for the pair what it held before the call and the parent's record is the
\* one stored before the call; when it returns True, the edge is in the
\* table and, if the parent has a record, that record holds the child.
C19_AllOrNothing ==
  (Done("link") /\ ret.kind = "bool") =>
     IF ret.ok
     THEN /\ LinkRow(op.id, op.child, op.rtype) \in links
          /\ \A r \in transactions :
                r.id = op.id => op.child \in Range(from_dict(r).related_transactions)
     ELSE /\ {r \in links : r.parent_id = op.id /\ r.child_id = op.child} = op.beforelink
          /\ {r \in transactions : r.id = op.id} = op.before

\* C20: an id without a record that the traversal meets is added to visited
\* but _get_related_transactions is never entered with it, so the ids of the
\* returned list are exactly the ids the traversal entered, all of them
\* stored, and a stored id joined to the start only through ids without a
\* record is left out.
C20_NoPassThroughDangling ==
  (op.name = "chain") =>
     /\ Range(entered) \subseteq StoredIds
     /\ Range(entered) \subseteq visited
     /\ (Done("chain") /\ ret.kind = "list") =>
           /\ Range(ListIds(ret.list)) = Range(entered)
           /\ Range(entered) \subseteq Reach({op.id}, StoredIds)
           /\ \A i \in StoredIds \ Range(entered) :
                 i \notin Reach({op.id}, StoredIds)

\* the traversal met an id without a record, and a stored id that is joined
\* to the start through that id is not in the returned list
C20_Witness ==
  /\ Done("chain") /\ ret.kind = "list" /\ Len(ret.list) = 1
  /\ visited \ StoredIds # {}
  /\ \E i \in StoredIds :
        /\ i \in Reach({op.id}, AllIds)
        /\ i \notin Range(ListIds(ret.list))

\* the frames, of either user, whose connection holds an uncommitted write
DirtyFrames ==
  {<<1, i>> : i \in {k \in 1..Len(stack) : stack[k].dirty}}
  \cup {<<2, i>> : i \in {k \in 1..Len(other.stack) : other.stack[k].dirty}}

====
